---- MODULE Spec2Model ----
(***************************************************************************)
(* Model of tool_call_demo.py: the thinking-token post-processor, the      *)
(* tool-call parser, the tool dispatcher and the two-round workflow of     *)
(* run_tool_calling_demo.                                                  *)
(*                                                                         *)
(* A text is a sequence of lexemes.  The literal parts of the regular      *)
(* expressions of the source (<seed:think>, <function=NAME>, </function>,  *)
(* <parameter=NAME>, </parameter>) are one lexeme each; every other        *)
(* character of a text is a lexeme of kind "char".  A NAME is a sequence   *)
(* of atoms (whitespace atoms and word atoms).                             *)
(***************************************************************************)
EXTENDS Integers, Sequences, FiniteSets, TLC

VARIABLES pc, show_thinking_tokens, conversation, rendered_prompt,
          final_prompt, raw_output, llm_output, tool_calls, tool_results,
          final_answer, answer, exc, error_log, n_render, n_llm, n_parse,
          n_exec, arg, ret, ret2

vars == <<pc, show_thinking_tokens, conversation, rendered_prompt,
          final_prompt, raw_output, llm_output, tool_calls, tool_results,
          final_answer, answer, exc, error_log, n_render, n_llm, n_parse,
          n_exec, arg, ret, ret2>>

workflow_vars == <<conversation, rendered_prompt, final_prompt, raw_output,
                   llm_output, tool_calls, tool_results, final_answer,
                   answer, exc, error_log, n_render, n_llm, n_parse, n_exec>>

counters == <<n_render, n_llm, n_parse, n_exec>>

(***************************************************************************)
(* Bounds of the model.                                                    *)
(***************************************************************************)
MaxLen == 5
MaxPieces == 4
MaxRespPieces == 3
MaxFinalPieces == 2

(***************************************************************************)
(* Lexemes.                                                                *)
(***************************************************************************)
Lex(k, n) == [k |-> k, n |-> n]

THINK_BEGIN_TOKEN == Lex("<seed:think>", <<>>)

THINK_END_TOKEN == Lex("</seed:think>", <<>>)

FunctionOpen(name) == Lex("<function=", name)

FunctionClose == Lex("</function>", <<>>)

ParameterOpen(name) == Lex("<parameter=", name)

ParameterClose == Lex("</parameter>", <<>>)

Char(c) == Lex("char", <<c>>)

Whitespace == {" ", "\n"}

IsSpace(l) == l.k = "char" /\ l.n[1] \in Whitespace

IsNewline(l) == l.k = "char" /\ l.n[1] = "\n"

Min(S) == CHOOSE x \in S : \A y \in S : x <= y

Max(S) == CHOOSE x \in S : \A y \in S : x >= y

(***************************************************************************)
(* str.strip(): drop the leading and the trailing whitespace.              *)
(***************************************************************************)
Strip(s, W) ==
    LET keep == {i \in 1..Len(s) : s[i] \notin W}
    IN  IF keep = {} THEN <<>> ELSE SubSeq(s, Min(keep), Max(keep))

StripText(s) == Strip(s, {Char(c) : c \in Whitespace})

StripName(n) == Strip(n, Whitespace)

(***************************************************************************)
(* A greedy body in the thinking pattern: a match ends at the last end     *)
(* token of the text.                                                      *)
(***************************************************************************)
RECURSIVE ThinkSub_Greedy(_)
ThinkSub_Greedy(s) ==
    IF s = <<>> THEN <<>>
    ELSE IF Head(s) = THINK_BEGIN_TOKEN
         THEN LET ends == {i \in 2..Len(s) : s[i] = THINK_END_TOKEN}
              IN  IF ends = {} THEN <<Head(s)>> \o ThinkSub_Greedy(Tail(s))
                  ELSE ThinkSub_Greedy(SubSeq(s, Max(ends) + 1, Len(s)))
         ELSE <<Head(s)>> \o ThinkSub_Greedy(Tail(s))

(***************************************************************************)
(* pattern.sub("", llm_output) with pattern                                *)
(* <seed:think>(.*?)</seed:think>, DOTALL: leftmost, non-overlapping, each *)
(* match ending at the first end token after its begin token.              *)
(***************************************************************************)
RECURSIVE ThinkSub(_)
ThinkSub(s) ==
    IF s = <<>> THEN <<>>
    ELSE IF Head(s) = THINK_BEGIN_TOKEN
         THEN LET ends == {i \in 2..Len(s) : s[i] = THINK_END_TOKEN}
              IN  IF ends = {} THEN <<Head(s)>> \o ThinkSub(Tail(s))
                  ELSE ThinkSub(SubSeq(s, Min(ends) + 1, Len(s)))
         ELSE <<Head(s)>> \o ThinkSub(Tail(s))

(***************************************************************************)
(* A replacement by '\n' instead of '\n\n'.                                *)
(***************************************************************************)
RECURSIVE BlankLineSub_Single(_)
BlankLineSub_Single(s) ==
    IF s = <<>> THEN <<>>
    ELSE IF IsNewline(Head(s))
         THEN LET run == {i \in 2..Len(s) : \A j \in 2..i : IsSpace(s[j])}
                  nls == {i \in run : IsNewline(s[i])}
              IN  IF nls = {} THEN <<Head(s)>> \o BlankLineSub_Single(Tail(s))
                  ELSE <<Char("\n")>>
                       \o BlankLineSub_Single(SubSeq(s, Max(nls) + 1, Len(s)))
         ELSE <<Head(s)>> \o BlankLineSub_Single(Tail(s))

(***************************************************************************)
(* re.sub(r'\n\s*\n', '\n\n', text): a match starts at a newline and, \s*  *)
(* being greedy, ends at the last newline of the whitespace run that       *)
(* follows it.                                                             *)
(***************************************************************************)
RECURSIVE BlankLineSub(_)
BlankLineSub(s) ==
    IF s = <<>> THEN <<>>
    ELSE IF IsNewline(Head(s))
         THEN LET run == {i \in 2..Len(s) : \A j \in 2..i : IsSpace(s[j])}
                  nls == {i \in run : IsNewline(s[i])}
              IN  IF nls = {} THEN <<Head(s)>> \o BlankLineSub(Tail(s))
                  ELSE <<Char("\n"), Char("\n")>>
                       \o BlankLineSub(SubSeq(s, Max(nls) + 1, Len(s)))
         ELSE <<Head(s)>> \o BlankLineSub(Tail(s))

(***************************************************************************)
(* LLMToolClient._process_llm_response.  The regular-expression calls do   *)
(* not raise on a str, so the except branch is not taken.                  *)
(***************************************************************************)
process_llm_response(text, show) ==
    IF show THEN text
    ELSE StripText(BlankLineSub(ThinkSub(text)))

(***************************************************************************)
(* json.loads on a stripped parameter value.  Over the characters of the   *)
(* model a value is valid JSON exactly when it is a non-empty run of the   *)
(* digits 1..9 (an integer); everything else raises and the value stays    *)
(* the stripped string.  The decoded value keeps its digits, tagged with   *)
(* its type.                                                               *)
(***************************************************************************)
Digits == {"1", "2"}

IsDigit(l) == l.k = "char" /\ l.n[1] \in Digits

json_loads_ok(v) == v # <<>> /\ \A i \in 1..Len(v) : IsDigit(v[i])

CoerceValue(v) ==
    IF json_loads_ok(v) THEN [type |-> "int", value |-> v]
    ELSE [type |-> "str", value |-> v]

(***************************************************************************)
(* params.setdefault(param_name, param_value): the first value stays.      *)
(***************************************************************************)
AssignParam_FirstWins(params, name, value) ==
    [x \in (DOMAIN params) \cup {name} |->
        IF x \in DOMAIN params THEN params[x] ELSE value]

(***************************************************************************)
(* params[param_name] = param_value                                        *)
(***************************************************************************)
AssignParam(params, name, value) ==
    [x \in (DOMAIN params) \cup {name} |->
        IF x = name THEN value ELSE params[x]]

IsFunctionOpen(l) == l.k = "<function=" /\ l.n # <<>>

IsParameterOpen(l) == l.k = "<parameter=" /\ l.n # <<>>

(***************************************************************************)
(* A greedy body: the match ends at the last closing lexeme.               *)
(***************************************************************************)
LazyEnd_Greedy(s, close) ==
    LET closes == {i \in 2..Len(s) : s[i] = close}
    IN  IF closes = {} THEN 0 ELSE Max(closes)

(***************************************************************************)
(* The lazy body (.*?) of both patterns: the index, in s, of the closing   *)
(* lexeme that ends the match opened by s[1]; 0 when there is none.        *)
(***************************************************************************)
LazyEnd(s, close) ==
    LET closes == {i \in 2..Len(s) : s[i] = close}
    IN  IF closes = {} THEN 0 ELSE Min(closes)

(***************************************************************************)
(* param_pattern.finditer(params_text) and the body of its loop.           *)
(***************************************************************************)
RECURSIVE ParseParameters(_, _)
ParseParameters(s, params) ==
    IF s = <<>> THEN params
    ELSE LET e == LazyEnd(s, ParameterClose)
         IN  IF IsParameterOpen(Head(s)) /\ e # 0
             THEN LET param_name  == StripName(Head(s).n)
                      param_value == StripText(SubSeq(s, 2, e - 1))
                  IN  ParseParameters(SubSeq(s, e + 1, Len(s)),
                          AssignParam(params, param_name,
                                      CoerceValue(param_value)))
             ELSE ParseParameters(Tail(s), params)

EmptyParams == [x \in {} |-> CoerceValue(<<>>)]

ToolCall(name, arguments) ==
    [function |-> [name |-> name, arguments |-> arguments]]

(***************************************************************************)
(* ToolExecutor.parse_tool_calls: function_pattern.finditer(llm_output)    *)
(* and the body of its loop.                                               *)
(***************************************************************************)
RECURSIVE parse_tool_calls(_)
parse_tool_calls(s) ==
    IF s = <<>> THEN <<>>
    ELSE LET e == LazyEnd(s, FunctionClose)
         IN  IF IsFunctionOpen(Head(s)) /\ e # 0
             THEN LET func_name   == StripName(Head(s).n)
                      params_text == StripText(SubSeq(s, 2, e - 1))
                  IN  <<ToolCall(func_name,
                                 ParseParameters(params_text, EmptyParams))>>
                      \o parse_tool_calls(SubSeq(s, e + 1, Len(s)))
             ELSE parse_tool_calls(Tail(s))

(***************************************************************************)
(* Inputs of the checks of the pure functions.                             *)
(***************************************************************************)
RECURSIVE Concat(_)
Concat(ps) == IF ps = <<>> THEN <<>> ELSE Head(ps) \o Concat(Tail(ps))

SeqsUpTo(S, n) == UNION {[1..m -> S] : m \in 0..n}

ProcessAlphabet ==
    {THINK_BEGIN_TOKEN, THINK_END_TOKEN,
     Char("x"), Char("y"), Char(" "), Char("\n")}

ProcessInputs == SeqsUpTo(ProcessAlphabet, MaxLen)

ParserPieces ==
    { <<FunctionOpen(<<"f">>)>>,
      <<FunctionOpen(<<" ", "g", " ">>)>>,
      <<FunctionClose>>,
      <<ParameterOpen(<<"a">>)>>,
      <<ParameterClose>>,
      <<ParameterOpen(<<"a">>), Char("1"), ParameterClose>>,
      <<ParameterOpen(<<" ", "a">>), Char(" "), Char("2"), ParameterClose>>,
      <<ParameterOpen(<<"b">>), Char("b"), Char("1"), ParameterClose>>,
      <<Char(" ")>>,
      <<Char("x")>> }

ParserInputs == {Concat(ps) : ps \in SeqsUpTo(ParserPieces, MaxPieces)}

(***************************************************************************)
(* State of a run before run_tool_calling_demo has done anything.          *)
(***************************************************************************)
NoAnswer == [step |-> "", details |-> <<>>]

NoException == [type |-> "", message |-> ""]

NoPrompt == [messages |-> <<>>, tools |-> <<>>, show_thinking_tokens |-> FALSE]

WorkflowIdle ==
    /\ conversation = <<>>
    /\ rendered_prompt = NoPrompt
    /\ final_prompt = NoPrompt
    /\ raw_output = <<>>
    /\ llm_output = <<>>
    /\ tool_calls = <<>>
    /\ tool_results = <<>>
    /\ final_answer = <<>>
    /\ answer = NoAnswer
    /\ exc = NoException
    /\ error_log = NoAnswer
    /\ n_render = 0
    /\ n_llm = 0
    /\ n_parse = 0
    /\ n_exec = 0

(***************************************************************************)
(* _process_llm_response applied to a text, and again to its result.       *)
(***************************************************************************)
InitProcess ==
    /\ pc = "process_input"
    /\ show_thinking_tokens \in BOOLEAN
    /\ arg \in ProcessInputs
    /\ ret = <<>>
    /\ ret2 = <<>>
    /\ WorkflowIdle

ProcessResponse ==
    /\ pc = "process_input"
    /\ ret' = process_llm_response(arg, show_thinking_tokens)
    /\ pc' = "processed"
    /\ UNCHANGED <<show_thinking_tokens, arg, ret2, workflow_vars>>

ProcessAgain ==
    /\ pc = "processed"
    /\ ret2' = process_llm_response(ret, show_thinking_tokens)
    /\ pc' = "reprocessed"
    /\ UNCHANGED <<show_thinking_tokens, arg, ret, workflow_vars>>

NextProcess == ProcessResponse \/ ProcessAgain

SpecProcess == InitProcess /\ [][NextProcess]_vars

(***************************************************************************)
(* parse_tool_calls applied to a text.                                     *)
(***************************************************************************)
InitParse ==
    /\ pc = "parse_input"
    /\ show_thinking_tokens = FALSE
    /\ arg \in ParserInputs
    /\ ret = <<>>
    /\ ret2 = <<>>
    /\ WorkflowIdle

ParseInput ==
    /\ pc = "parse_input"
    /\ ret' = parse_tool_calls(arg)
    /\ pc' = "parsed"
    /\ UNCHANGED <<show_thinking_tokens, arg, ret2, workflow_vars>>

NextParse == ParseInput

SpecParse == InitParse /\ [][NextParse]_vars

(***************************************************************************)
(* run_tool_calling_demo.                                                  *)
(***************************************************************************)
Text(str) == <<Char(str)>>

user_query == <<"What's the current local time right now?">>

Message(role, content) == [role |-> role, content |-> content]

ToolResult(content, idx) ==
    [role |-> "tool", content |-> content, tool_call_id |-> idx]

Tools == <<"get_current_local_time">>

(***************************************************************************)
(* Logger.log_step: what is printed as the details of a step.              *)
(***************************************************************************)
max_length == 5000

log_step(step, details) ==
    [step |-> step,
     details |-> IF Len(details) > max_length
                 THEN SubSeq(details, 1, max_length) \o Text("...")
                 ELSE details]

(***************************************************************************)
(* LLMToolClient.render_prompt: the template is expanded from exactly      *)
(* these arguments.                                                        *)
(***************************************************************************)
render_prompt(messages, show) ==
    [messages |-> messages, tools |-> Tools, show_thinking_tokens |-> show]

(***************************************************************************)
(* ToolExecutor.get_current_local_time and execute_tool_call; now is the   *)
(* formatted reading of the clock.                                         *)
(***************************************************************************)
Clock == {"2024-05-20 16:30:00 ", "2024-05-20 16:30:01 "}

get_current_local_time(now) == <<now>>

UnknownFunction(func_name) == <<"Unknown function '">> \o func_name \o <<"'">>

\* A dispatcher that runs the time provider whatever the name.
execute_tool_call_AnyName(tool_call, now) ==
    [raised |-> FALSE, value |-> get_current_local_time(now)]

execute_tool_call(tool_call, now) ==
    LET func_name == tool_call.function.name
    IN  IF func_name = <<"get_current_local_time">>
        THEN [raised |-> FALSE, value |-> get_current_local_time(now)]
        ELSE [raised |-> TRUE, value |-> UnknownFunction(func_name)]

error_msg(tc, e) ==
    <<"ERROR in tool '">> \o tc.function.name \o <<"': ">> \o e

(***************************************************************************)
(* The responses of the completion endpoint.                               *)
(***************************************************************************)
ResponsePieces ==
    { <<FunctionOpen(<<"get_current_local_time">>), FunctionClose>>,
      <<FunctionOpen(<<" ", "get_weather">>), FunctionClose>>,
      <<THINK_BEGIN_TOKEN>>,
      <<THINK_END_TOKEN>>,
      <<Char("x")>>,
      <<Char(" ")>> }

Responses == {Concat(ps) : ps \in SeqsUpTo(ResponsePieces, MaxRespPieces)}

FinalResponses ==
    {Concat(ps) : ps \in SeqsUpTo(ResponsePieces, MaxFinalPieces)}

\* except ValueError: a RuntimeError is not caught.
IsException_ValueErrorOnly(type) == type \in {"ValueError"}

IsException(type) == type \in {"RuntimeError", "ValueError"}

Raise(type, message) ==
    /\ exc' = [type |-> type, message |-> message]
    /\ pc' = "except"

Init ==
    /\ pc = "start"
    /\ show_thinking_tokens = FALSE
    /\ arg = <<>>
    /\ ret = <<>>
    /\ ret2 = <<>>
    /\ WorkflowIdle

LoadConfig ==
    /\ pc = "start"
    /\ show_thinking_tokens' \in BOOLEAN
    /\ pc' = "init_client"
    /\ UNCHANGED <<arg, ret, ret2, workflow_vars>>

LoadConfigFails ==
    /\ pc = "start"
    /\ Raise("ValueError", "invalid literal for int()")
    /\ UNCHANGED <<show_thinking_tokens, arg, ret, ret2, conversation,
                   rendered_prompt, final_prompt, raw_output, llm_output,
                   tool_calls, tool_results, final_answer, answer, error_log,
                   counters>>

LoadTemplate ==
    /\ pc = "init_client"
    /\ conversation' = <<Message("user", user_query)>>
    /\ pc' = "render_initial"
    /\ UNCHANGED <<show_thinking_tokens, arg, ret, ret2, rendered_prompt,
                   final_prompt, raw_output, llm_output, tool_calls,
                   tool_results, final_answer, answer, exc, error_log,
                   counters>>

LoadTemplateFails ==
    /\ pc = "init_client"
    /\ \E message \in {"Template file not found", "Failed to load template"} :
          Raise("RuntimeError", message)
    /\ UNCHANGED <<show_thinking_tokens, arg, ret, ret2, conversation,
                   rendered_prompt, final_prompt, raw_output, llm_output,
                   tool_calls, tool_results, final_answer, answer, error_log,
                   counters>>

RenderInitialPrompt ==
    /\ pc = "render_initial"
    /\ n_render' = n_render + 1
    /\ rendered_prompt' = render_prompt(conversation, show_thinking_tokens)
    /\ pc' = "call_llm"
    /\ UNCHANGED <<show_thinking_tokens, arg, ret, ret2, conversation,
                   final_prompt, raw_output, llm_output, tool_calls,
                   tool_results, final_answer, answer, exc, error_log,
                   n_llm, n_parse, n_exec>>

RenderInitialPromptFails ==
    /\ pc = "render_initial"
    /\ n_render' = n_render + 1
    /\ Raise("RuntimeError", "Failed to render prompt")
    /\ UNCHANGED <<show_thinking_tokens, arg, ret, ret2, conversation,
                   rendered_prompt, final_prompt, raw_output, llm_output,
                   tool_calls, tool_results, final_answer, answer, error_log,
                   n_llm, n_parse, n_exec>>

(***************************************************************************)
(* LLMToolClient.call_llm on the initial prompt.                           *)
(***************************************************************************)
CallLLM ==
    /\ pc = "call_llm"
    /\ n_llm' = n_llm + 1
    /\ \E text \in Responses :
          /\ raw_output' = StripText(text)
          /\ llm_output' =
                process_llm_response(raw_output', show_thinking_tokens)
    /\ pc' = "parse"
    /\ UNCHANGED <<show_thinking_tokens, arg, ret, ret2, conversation,
                   rendered_prompt, final_prompt, tool_calls, tool_results,
                   final_answer, answer, exc, error_log, n_render, n_parse,
                   n_exec>>

CallLLMFails ==
    /\ pc = "call_llm"
    /\ n_llm' = n_llm + 1
    /\ Raise("RuntimeError", "LLM API call failed")
    /\ UNCHANGED <<show_thinking_tokens, arg, ret, ret2, conversation,
                   rendered_prompt, final_prompt, raw_output, llm_output,
                   tool_calls, tool_results, final_answer, answer, error_log,
                   n_render, n_parse, n_exec>>

(***************************************************************************)
(* Step 3: parse_tool_calls(llm_output) and the branch on its result.      *)
(***************************************************************************)
\* The direct answer taken from the raw output of the model.
NoToolCalls_ReportsRaw ==
    /\ pc = "parse"
    /\ parse_tool_calls(llm_output) = <<>>
    /\ n_parse' = n_parse + 1
    /\ tool_calls' = parse_tool_calls(llm_output)
    /\ answer' = log_step("DIRECT ANSWER",
                          IF raw_output # <<>> THEN raw_output
                          ELSE Text("Empty response"))
    /\ pc' = "returned"
    /\ UNCHANGED <<show_thinking_tokens, arg, ret, ret2, conversation,
                   rendered_prompt, final_prompt, raw_output, llm_output,
                   tool_results, final_answer, exc, error_log, n_render,
                   n_llm, n_exec>>

NoToolCalls ==
    /\ pc = "parse"
    /\ parse_tool_calls(llm_output) = <<>>
    /\ n_parse' = n_parse + 1
    /\ tool_calls' = parse_tool_calls(llm_output)
    /\ answer' = log_step("DIRECT ANSWER",
                          IF llm_output # <<>> THEN llm_output
                          ELSE Text("Empty response"))
    /\ pc' = "returned"
    /\ UNCHANGED <<show_thinking_tokens, arg, ret, ret2, conversation,
                   rendered_prompt, final_prompt, raw_output, llm_output,
                   tool_results, final_answer, exc, error_log, n_render,
                   n_llm, n_exec>>

ToolCallsFound ==
    /\ pc = "parse"
    /\ parse_tool_calls(llm_output) # <<>>
    /\ n_parse' = n_parse + 1
    /\ tool_calls' = parse_tool_calls(llm_output)
    /\ tool_results' = <<>>
    /\ pc' = "execute"
    /\ UNCHANGED <<show_thinking_tokens, arg, ret, ret2, conversation,
                   rendered_prompt, final_prompt, raw_output, llm_output,
                   final_answer, answer, exc, error_log, n_render, n_llm,
                   n_exec>>

(***************************************************************************)
(* Step 4: one iteration of the loop over enumerate(tool_calls).           *)
(***************************************************************************)
ExecuteToolCall ==
    /\ pc = "execute"
    /\ Len(tool_results) < Len(tool_calls)
    /\ n_exec' = n_exec + 1
    /\ \E now \in Clock :
          LET idx == Len(tool_results)
              tc  == tool_calls[idx + 1]
              r   == execute_tool_call(tc, now)
          IN  tool_results' = Append(tool_results,
                  IF r.raised THEN ToolResult(error_msg(tc, r.value), idx)
                  ELSE ToolResult(r.value, idx))
    /\ pc' = IF Len(tool_results') = Len(tool_calls)
             THEN "add_results" ELSE "execute"
    /\ UNCHANGED <<show_thinking_tokens, arg, ret, ret2, conversation,
                   rendered_prompt, final_prompt, raw_output, llm_output,
                   tool_calls, final_answer, answer, exc, error_log,
                   n_render, n_llm, n_parse>>

(***************************************************************************)
(* Step 5: append every result to the conversation.                        *)
(***************************************************************************)
\* The results appended last first.
AddResults_Reversed ==
    /\ pc = "add_results"
    /\ conversation' = conversation \o
          [k \in 1..Len(tool_results) |->
              Message("tool",
                      tool_results[Len(tool_results) + 1 - k].content)]
    /\ pc' = "render_final"
    /\ UNCHANGED <<show_thinking_tokens, arg, ret, ret2, rendered_prompt,
                   final_prompt, raw_output, llm_output, tool_calls,
                   tool_results, final_answer, answer, exc, error_log,
                   counters>>

AddResults ==
    /\ pc = "add_results"
    /\ conversation' = conversation \o
          [k \in 1..Len(tool_results) |->
              Message("tool", tool_results[k].content)]
    /\ pc' = "render_final"
    /\ UNCHANGED <<show_thinking_tokens, arg, ret, ret2, rendered_prompt,
                   final_prompt, raw_output, llm_output, tool_calls,
                   tool_results, final_answer, answer, exc, error_log,
                   counters>>

RenderFinalPrompt ==
    /\ pc = "render_final"
    /\ n_render' = n_render + 1
    /\ final_prompt' = render_prompt(conversation, show_thinking_tokens)
    /\ pc' = "call_llm_final"
    /\ UNCHANGED <<show_thinking_tokens, arg, ret, ret2, conversation,
                   rendered_prompt, raw_output, llm_output, tool_calls,
                   tool_results, final_answer, answer, exc, error_log,
                   n_llm, n_parse, n_exec>>

RenderFinalPromptFails ==
    /\ pc = "render_final"
    /\ n_render' = n_render + 1
    /\ Raise("RuntimeError", "Failed to render prompt")
    /\ UNCHANGED <<show_thinking_tokens, arg, ret, ret2, conversation,
                   rendered_prompt, final_prompt, raw_output, llm_output,
                   tool_calls, tool_results, final_answer, answer, error_log,
                   n_llm, n_parse, n_exec>>

(***************************************************************************)
(* Step 6: LLMToolClient.call_llm on the final prompt.                     *)
(***************************************************************************)
CallLLMFinal ==
    /\ pc = "call_llm_final"
    /\ n_llm' = n_llm + 1
    /\ \E text \in FinalResponses :
          /\ raw_output' = StripText(text)
          /\ final_answer' =
                process_llm_response(raw_output', show_thinking_tokens)
    /\ pc' = "report_final"
    /\ UNCHANGED <<show_thinking_tokens, arg, ret, ret2, conversation,
                   rendered_prompt, final_prompt, llm_output, tool_calls,
                   tool_results, answer, exc, error_log, n_render, n_parse,
                   n_exec>>

CallLLMFinalFails ==
    /\ pc = "call_llm_final"
    /\ n_llm' = n_llm + 1
    /\ Raise("RuntimeError", "LLM API call failed")
    /\ UNCHANGED <<show_thinking_tokens, arg, ret, ret2, conversation,
                   rendered_prompt, final_prompt, raw_output, llm_output,
                   tool_calls, tool_results, final_answer, answer, error_log,
                   n_render, n_parse, n_exec>>

\* A loop driver that parses the final response for further calls.
ReportFinalAnswer_Reparse ==
    /\ pc = "report_final"
    /\ llm_output' = final_answer
    /\ pc' = "parse"
    /\ UNCHANGED <<show_thinking_tokens, arg, ret, ret2, conversation,
                   rendered_prompt, final_prompt, raw_output, tool_calls,
                   tool_results, final_answer, answer, exc, error_log,
                   counters>>

ReportFinalAnswer ==
    /\ pc = "report_final"
    /\ answer' = log_step("FINAL LLM RESPONSE",
                          IF final_answer # <<>> THEN final_answer
                          ELSE Text("No answer generated"))
    /\ pc' = "returned"
    /\ UNCHANGED <<show_thinking_tokens, arg, ret, ret2, conversation,
                   rendered_prompt, final_prompt, raw_output, llm_output,
                   tool_calls, tool_results, final_answer, exc, error_log,
                   counters>>

(***************************************************************************)
(* except Exception as e: log the error and fall off the function; an      *)
(* exception the clause does not catch leaves the function.                *)
(***************************************************************************)
CriticalError ==
    /\ pc = "except"
    /\ IF IsException(exc.type)
       THEN /\ error_log' = [step |-> "CRITICAL ERROR OCCURRED",
                             details |-> <<exc.type, exc.message>>]
            /\ pc' = "returned"
       ELSE /\ error_log' = error_log
            /\ pc' = "raised"
    /\ UNCHANGED <<show_thinking_tokens, arg, ret, ret2, conversation,
                   rendered_prompt, final_prompt, raw_output, llm_output,
                   tool_calls, tool_results, final_answer, answer, exc,
                   counters>>

Next ==
    \/ LoadConfig
    \/ LoadConfigFails
    \/ LoadTemplate
    \/ LoadTemplateFails
    \/ RenderInitialPrompt
    \/ RenderInitialPromptFails
    \/ CallLLM
    \/ CallLLMFails
    \/ NoToolCalls
    \/ ToolCallsFound
    \/ ExecuteToolCall
    \/ AddResults
    \/ RenderFinalPrompt
    \/ RenderFinalPromptFails
    \/ CallLLMFinal
    \/ CallLLMFinalFails
    \/ ReportFinalAnswer
    \/ CriticalError

Spec == Init /\ [][Next]_vars

(***************************************************************************)
(* Vocabulary of the properties, stated on positions of a text and not by  *)
(* scanning it.                                                            *)
(***************************************************************************)
SpaceLexemes == {Char(" "), Char("\n")}

Count(t, lo, hi, l) == Cardinality({i \in lo..hi : t[i] = l})

\* The subsequence of t at the positions I.
Pick(t, I) ==
    [k \in 1..Cardinality(I) |->
        t[CHOOSE i \in I : Cardinality({j \in I : j < i}) = k - 1]]

NonSpace(t) == Pick(t, {i \in 1..Len(t) : ~IsSpace(t[i])})

\* r is s without its leading and trailing whitespace, W being whitespace.
IsTrimOf(r, s, W) ==
    /\ r # <<>> => r[1] \notin W /\ r[Len(r)] \notin W
    /\ \E i \in 0..Len(s) :
          /\ \A m \in 1..i : s[m] \in W
          /\ \A m \in (i + Len(r) + 1)..Len(s) : s[m] \in W
          /\ i + Len(r) <= Len(s)
          /\ r = SubSeq(s, i + 1, i + Len(r))

\* Two newlines with only whitespace between them are adjacent.
Collapsed(t) ==
    \A i, j \in 1..Len(t) :
        (/\ i < j
         /\ IsNewline(t[i])
         /\ IsNewline(t[j])
         /\ \A m \in (i + 1)..(j - 1) : IsSpace(t[m])) => j = i + 1

MarkerFree(t) ==
    \A i \in 1..Len(t) : t[i] \notin {THINK_BEGIN_TOKEN, THINK_END_TOKEN}

\* The markers of t alternate begin, end, begin, end, ...
WellFormedThinking(t) ==
    /\ \A i \in 1..Len(t) :
          Count(t, 1, i, THINK_BEGIN_TOKEN) - Count(t, 1, i, THINK_END_TOKEN)
             \in {0, 1}
    /\ Count(t, 1, Len(t), THINK_BEGIN_TOKEN)
          = Count(t, 1, Len(t), THINK_END_TOKEN)

\* Position i of a well-formed text lies in a span (markers included).
InSpan(t, i) ==
    Count(t, 1, i, THINK_BEGIN_TOKEN) > Count(t, 1, i - 1, THINK_END_TOKEN)

OutsideSpans(t) == Pick(t, {i \in 1..Len(t) : ~InSpan(t, i)})

\* The function blocks of t: an opener, the first closer after it, and no
\* earlier opener still waiting for that closer.
FunctionBlocks(t) ==
    {b \in (1..Len(t)) \X (1..Len(t)) :
        /\ b[1] < b[2]
        /\ IsFunctionOpen(t[b[1]])
        /\ t[b[2]] = FunctionClose
        /\ \A m \in (b[1] + 1)..(b[2] - 1) : t[m] # FunctionClose
        /\ ~ \E k \in 1..(b[1] - 1) :
                /\ IsFunctionOpen(t[k])
                /\ \A m \in (k + 1)..b[1] : t[m] # FunctionClose}

\* The parameter blocks of t inside the function block b.
ParameterBlocks(t, b) ==
    {q \in ((b[1] + 1)..(b[2] - 1)) \X ((b[1] + 1)..(b[2] - 1)) :
        /\ q[1] < q[2]
        /\ IsParameterOpen(t[q[1]])
        /\ t[q[2]] = ParameterClose
        /\ \A m \in (q[1] + 1)..(q[2] - 1) : t[m] # ParameterClose
        /\ ~ \E k \in (b[1] + 1)..(q[1] - 1) :
                /\ IsParameterOpen(t[k])
                /\ \A m \in (k + 1)..q[1] : t[m] # ParameterClose}

\* The position of block b among the blocks B, by order of appearance.
Rank(B, b) == 1 + Cardinality({c \in B : c[1] < b[1]})

(***************************************************************************)
(* C6: parse_tool_calls returns one ToolCall per function block of its     *)
(* input, in order of appearance, each named by the trimmed NAME of the    *)
(* block's opener; an input without a complete block gives the empty       *)
(* sequence.                                                               *)
(***************************************************************************)
C6_OneCallPerBlock ==
    pc = "parsed" =>
        LET B == FunctionBlocks(arg)
        IN  /\ Len(ret) = Cardinality(B)
            /\ \A b \in B :
                  IsTrimOf(ret[Rank(B, b)].function.name, arg[b[1]].n,
                           Whitespace)
            /\ B = {} => ret = <<>>

C6_Witness ==
    /\ pc = "parsed"
    /\ Len(ret) = 2
    /\ ret[1].function.name = <<"f">>
    /\ ret[2].function.name = <<"g">>
    /\ \E i \in 1..Len(arg) : arg[i] = FunctionOpen(<<" ", "g", " ">>)

C8_Original ==
    (pc = "processed" /\ WellFormedThinking(arg)) =>
        IF show_thinking_tokens THEN ret = arg
        ELSE ret = OutsideSpans(arg)

(***************************************************************************)
(* C8 amended: with show_thinking_tokens false the N spans are removed,    *)
(* every non-whitespace character outside the spans is kept in order, and  *)
(* the whitespace outside the spans is kept up to the collapse of          *)
(* blank-line runs and the trimming of the ends; with show_thinking_tokens *)
(* true the result is the input.                                           *)
(***************************************************************************)
C8_SpansRemoved ==
    (pc = "processed" /\ WellFormedThinking(arg)) =>
        IF show_thinking_tokens THEN ret = arg
        ELSE /\ MarkerFree(ret)
             /\ NonSpace(ret) = NonSpace(OutsideSpans(arg))
             /\ Collapsed(ret)
             /\ Collapsed(OutsideSpans(arg))
                   => IsTrimOf(ret, OutsideSpans(arg), SpaceLexemes)

C8_Witness ==
    /\ pc = "processed"
    /\ ~show_thinking_tokens
    /\ WellFormedThinking(arg)
    /\ Count(arg, 1, Len(arg), THINK_BEGIN_TOKEN) = 2
    /\ ret = <<Char("x")>>
    /\ Len(OutsideSpans(arg)) = 1

(***************************************************************************)
(* C9 as stated: on a marker-free text, with show_thinking_tokens false,   *)
(* the result is the text without its leading and trailing whitespace and  *)
(* processing the result again changes nothing.                            *)
(***************************************************************************)
C9_Original ==
    (pc = "reprocessed" /\ ~show_thinking_tokens /\ MarkerFree(arg)) =>
        /\ IsTrimOf(ret, arg, SpaceLexemes)
        /\ ret2 = ret

(***************************************************************************)
(* C9 amended: on a marker-free text, with show_thinking_tokens false, the *)
(* result has the non-whitespace characters of the text in order, no       *)
(* leading or trailing whitespace and every blank-line run collapsed to    *)
(* two newlines; a text without a run to collapse is only trimmed; and     *)
(* processing the result again changes nothing.                            *)
(***************************************************************************)
C9_TrimCollapseIdempotent ==
    (pc = "reprocessed" /\ ~show_thinking_tokens /\ MarkerFree(arg)) =>
        /\ NonSpace(ret) = NonSpace(arg)
        /\ ret # <<>> => ~IsSpace(ret[1]) /\ ~IsSpace(ret[Len(ret)])
        /\ Collapsed(ret)
        /\ Collapsed(arg) => IsTrimOf(ret, arg, SpaceLexemes)
        /\ ret2 = ret

C9_Witness ==
    /\ pc = "reprocessed"
    /\ ~show_thinking_tokens
    /\ arg = <<Char(" "), Char("x"), Char("\n"), Char("\n"), Char("y")>>
    /\ ret = <<Char("x"), Char("\n"), Char("\n"), Char("y")>>
    /\ ret2 = ret

(***************************************************************************)
(* Vocabulary of the properties of the workflow.                           *)
(***************************************************************************)
UserMessage ==
    [role |-> "user",
     content |-> <<"What's the current local time right now?">>]

Registered == {<<"get_current_local_time">>}

Timestamps == {<<now>> : now \in Clock}

ErrorText(name) ==
    <<"ERROR in tool '">> \o name \o <<"': ", "Unknown function '">>
        \o name \o <<"'">>

\* Position i of t lies strictly between a begin token and the first end
\* token after it.
InThinkingSegment(t, i) ==
    \E a \in 1..(i - 1) : \E e \in (i + 1)..Len(t) :
        /\ t[a] = THINK_BEGIN_TOKEN
        /\ t[e] = THINK_END_TOKEN
        /\ \A m \in (a + 1)..(e - 1) : t[m] # THINK_END_TOKEN

(***************************************************************************)
(* C1: when the first response has N >= 1 function blocks, the             *)
(* conversation passed to the second render is the user message followed   *)
(* by N tool messages, the k-th carrying the result of the k-th call: a    *)
(* timestamp when the call succeeded, the error text when it raised.       *)
(***************************************************************************)
C1_OneToolMessagePerCall ==
    (pc = "render_final" \/ n_render = 2) =>
        LET B == FunctionBlocks(llm_output)
        IN  /\ Cardinality(B) >= 1
            /\ Len(conversation) = Cardinality(B) + 1
            /\ conversation[1] = UserMessage
            /\ final_prompt # NoPrompt => final_prompt.messages = conversation
            /\ \A b \in B :
                  LET k    == Rank(B, b)
                      name == StripName(llm_output[b[1]].n)
                      m    == conversation[k + 1]
                  IN  /\ m.role = "tool"
                      /\ m.content = tool_results[k].content
                      /\ tool_results[k].tool_call_id = k - 1
                      /\ name \in Registered => m.content \in Timestamps
                      /\ name \notin Registered => m.content = ErrorText(name)

C1_Witness ==
    /\ pc = "call_llm_final"
    /\ final_prompt.messages = conversation
    /\ Len(conversation) = 4
    /\ conversation[2].content = ErrorText(<<"get_weather">>)
    /\ conversation[3].content \in Timestamps
    /\ conversation[4].content = ErrorText(<<"get_weather">>)

(***************************************************************************)
(* C2: the model endpoint is called at most twice, the response is parsed  *)
(* at most once, every parsed call is dispatched at most once, and once    *)
(* the second model call has been made no parse and no dispatch step       *)
(* occurs any more, whatever the second response contains.                 *)
(***************************************************************************)
C2_AtMostTwoCallsOneRound ==
    /\ [](n_llm <= 2 /\ n_render <= 2 /\ n_parse <= 1
            /\ n_exec <= Len(tool_calls))
    /\ [][n_llm = 2 => /\ n_llm' = n_llm
                       /\ n_parse' = n_parse
                       /\ n_exec' = n_exec
                       /\ tool_calls' = tool_calls
                       /\ tool_results' = tool_results
                       /\ conversation' = conversation]_vars

C2_Witness ==
    /\ pc = "returned"
    /\ n_llm = 2
    /\ n_parse = 1
    /\ Cardinality(FunctionBlocks(final_answer)) = 2
    /\ answer.details = final_answer
    /\ n_exec = 1

(***************************************************************************)
(* C3 as stated: when the first processed response has no function block   *)
(* the run ends after one round-trip, nothing dispatched, nothing appended *)
(* to the conversation, and the answer reported is that response verbatim, *)
(* the empty one included.                                                 *)
(***************************************************************************)
C3_Original ==
    (n_parse = 1 /\ FunctionBlocks(llm_output) = {}) =>
        /\ pc = "returned"
        /\ n_llm = 1 /\ n_render = 1 /\ n_exec = 0
        /\ conversation = <<UserMessage>>
        /\ answer.details = llm_output

(***************************************************************************)
(* C3 amended: ... the answer reported is that response verbatim when it   *)
(* is not empty (and within the max_length of log_step), and the text      *)
(* "Empty response" when it is empty.                                      *)
(***************************************************************************)
C3_DirectAnswer ==
    (n_parse = 1 /\ FunctionBlocks(llm_output) = {}) =>
        /\ pc = "returned"
        /\ n_llm = 1 /\ n_render = 1 /\ n_exec = 0
        /\ conversation = <<UserMessage>>
        /\ tool_results = <<>>
        /\ exc = NoException
        /\ answer.step = "DIRECT ANSWER"
        /\ (llm_output # <<>> /\ Len(llm_output) <= max_length)
              => answer.details = llm_output
        /\ llm_output = <<>>
              => answer.details = <<Char("Empty response")>>

C3_Witness ==
    /\ pc = "returned"
    /\ n_parse = 1
    /\ ~show_thinking_tokens
    /\ raw_output = <<THINK_BEGIN_TOKEN, THINK_END_TOKEN, Char("x")>>
    /\ llm_output = <<Char("x")>>
    /\ answer.details = <<Char("x")>>

(***************************************************************************)
(* C4: a parsed call of an unregistered function gives no tool result: its *)
(* tool message is the error text naming the function and the              *)
(* unknown-function error, and the run goes on to the second render and    *)
(* the second model call (the only errors of such a run are those of the   *)
(* render and of the model call).                                          *)
(***************************************************************************)
C4_UnknownFunctionSurfaced ==
    /\ \A k \in 1..Len(tool_results) :
          LET name == tool_calls[k].function.name
          IN  name \notin Registered =>
                /\ tool_results[k].content = ErrorText(name)
                /\ tool_results[k].content \notin Timestamps
                /\ pc \in {"render_final", "call_llm_final", "report_final",
                           "except", "returned"}
                      => conversation[k + 1]
                            = [role |-> "tool", content |-> ErrorText(name)]
    /\ tool_calls # <<>> =>
          /\ exc.message \in {"", "Failed to render prompt",
                              "LLM API call failed"}
          /\ pc \in {"except", "returned"} => n_render = 2
          /\ (pc = "returned" /\ exc = NoException) => n_llm = 2
          /\ n_exec = Len(tool_results)
          /\ pc \notin {"execute"} => n_exec = Len(tool_calls)

C4_Witness ==
    /\ pc = "returned"
    /\ exc = NoException
    /\ n_llm = 2
    /\ n_render = 2
    /\ tool_calls = <<ToolCall(<<"get_weather">>, EmptyParams)>>
    /\ final_prompt.messages[2].content = ErrorText(<<"get_weather">>)

(***************************************************************************)
(* C5: after a failure of the template load, of a render or of a model     *)
(* call no render, model call, parse or dispatch step occurs, no answer is *)
(* reported, the error is logged and the function returns: no exception    *)
(* leaves it.                                                              *)
(***************************************************************************)
C5_FatalErrorsAbort ==
    /\ [](pc # "raised")
    /\ [](exc # NoException =>
            /\ pc \in {"except", "returned"}
            /\ answer = NoAnswer
            /\ pc = "returned"
                  => error_log = [step |-> "CRITICAL ERROR OCCURRED",
                                  details |-> <<exc.type, exc.message>>]
            /\ exc.message \in {"Template file not found",
                                "Failed to load template"}
                  => counters = <<0, 0, 0, 0>>
            /\ exc.message = "Failed to render prompt"
                  => /\ n_llm = n_render - 1
                     /\ n_render = 1 => (n_parse = 0 /\ n_exec = 0)
            /\ exc.message = "LLM API call failed"
                  => /\ n_llm = n_render
                     /\ n_llm = 1 => (n_parse = 0 /\ n_exec = 0))
    /\ [][exc # NoException =>
            /\ pc' = "returned"
            /\ UNCHANGED <<counters, answer, exc, conversation, tool_calls,
                           tool_results, llm_output, final_answer>>]_vars

C5_Witness ==
    /\ pc = "returned"
    /\ exc = [type |-> "RuntimeError", message |-> "LLM API call failed"]
    /\ n_llm = 2
    /\ n_exec = 2
    /\ answer = NoAnswer
    /\ error_log.step = "CRITICAL ERROR OCCURRED"

(***************************************************************************)
(* C10: the parser is given the post-processor's output of the first       *)
(* response, and so, for either value of show_thinking_tokens, every       *)
(* parsed call is the call of a function block of the response that is     *)
(* outside its thinking segments: the name of the call is the trimmed name *)
(* of an opener that is not inside a thinking segment.                     *)
(***************************************************************************)
C10_ThinkingNeverParsed ==
    (n_llm = 1 /\ n_parse = 1) =>
        /\ llm_output = process_llm_response(raw_output, show_thinking_tokens)
        /\ \A k \in 1..Len(tool_calls) :
              \E i \in 1..Len(raw_output) :
                 /\ IsFunctionOpen(raw_output[i])
                 /\ StripName(raw_output[i].n) = tool_calls[k].function.name
                 /\ ~InThinkingSegment(raw_output, i)

====
